---- MODULE Spec2Model ----
(***************************************************************************)
(* Offline detection queue (pi/offline_queue.py), sync manager             *)
(* (pi/offline_sync.py) and the producer's offline path                    *)
(* (pi/rasp_offline.py: upload_detection).                                 *)
(*                                                                         *)
(* Two threads run sync_all on the one OfflineSync object: the background  *)
(* sync_loop and the detection loop's immediate sync after queueing.  The  *)
(* detection loop adds through the module-level OfflineQueue `queue`, the  *)
(* sync manager reads and updates through its own OfflineQueue instance;   *)
(* both instances open the same SQLite file and each has its own           *)
(* threading.Lock.  SQLite makes each transaction (each statement outside  *)
(* a transaction) atomic.                                                  *)
(***************************************************************************)
EXTENDS Integers, Sequences, FiniteSets, TLC

\* ------------------------------------------------------------------ bounds
MaxAdds == 3         \* add_detection calls in a run (row ids 1..MaxAdds)
MaxClock == 2        \* last clock reading, in milliseconds
MaxCycles == 3       \* sync_all invocations in a run
MaxDays == 1         \* largest `days` given to cleanup_old_synced
MaxAttempts == 1     \* largest upload_attempts a direct call may increment
MaxCoord == 3        \* latitudes and longitudes are -MaxCoord..MaxCoord

\* ------------------------------------------------- program constants, scaled
MAX_QUEUE_SIZE == 2  \* 1000 in the source
BATCH_SIZE == 2      \* sync_all's default batch_size, 5 in the source
MsPerDay == 2        \* clock readings per calendar day
DaysPerMonth == 2    \* days in the month

Main == "main"       \* the detection loop of rasp_offline.py
Bg == "bg"           \* the daemon thread of start_background_sync
Threads == {Main, Bg}
Instances == {"queue", "sync_manager.queue"}
RowIds == 1..MaxAdds

VARIABLES
    store,        \* rows of table detection_queue
    seq,          \* AUTOINCREMENT: the last row id handed out
    now,          \* the system clock at its last reading, in milliseconds
    files,        \* row ids whose image file exists on disk
    lock,         \* OfflineQueue.lock of each instance: its holder, or "free"
    syncing,      \* OfflineSync.syncing
    pc,           \* each thread's position
    did,          \* add_detection: detection_id computed before the lock
    count,        \* add_detection: result of SELECT COUNT(*)
    batch,        \* sync_all: `unsynced`, the fetched rows
    idx,          \* sync_all: position of the for loop in `unsynced`
    stats,        \* sync_all: the stats dict
    result,       \* the value the last sync_all of each thread returned
    cycles,       \* sync_all invocations so far
    inserts,      \* backend: successful snake_detections inserts, per row id
    insertCalls,  \* backend: insert requests received, per row id
    log,          \* per row id, the outcomes of its finished publish attempts
    evicted,      \* detection ids of the rows add_detection's DELETE removed
    cleanup,      \* cleanup_old_synced: the parity of the calls so far, and
                  \* of the last call its days and outcome
    queued_detection,  \* sync_detection: latitude and longitude of the row
    detection_data,    \* sync_detection: the coordinates of the dict it inserts
    attempt,      \* sync_detection taken statement by statement: its position,
                  \* its row, the backend calls made and the value returned
    upload        \* upload_detection: OFFLINE_MODE, the position of the call,
                  \* its online calls and the value returned

vars == <<store, seq, now, files, lock, syncing, pc, did, count, batch, idx,
          stats, result, cycles, inserts, insertCalls, log, evicted,
          cleanup, queued_detection, detection_data, attempt, upload>>

\* ------------------------------------------------------------ the clock
\* time.time() and datetime.utcnow() read one clock, which does not run
\* backwards: a reading is any time from the last reading on.
Readings == now..MaxClock

\* f"offline_{int(time.time() * 1000)}"
detection_id_at(t) == t

DayOf(t) == t \div MsPerDay
DayOfMonth(t) == (DayOf(t) % DaysPerMonth) + 1

\* ------------------------------------------------- the table and its SQL
Unsynced(s) == {r \in s : r.synced = 0}

\* SELECT COUNT(*) FROM detection_queue WHERE synced = 0
count_unsynced(s) == Cardinality(Unsynced(s))

\* ORDER BY created_at ASC over index idx_synced(synced, created_at), whose
\* entries of equal key lie in rowid order
OrderedBefore(a, b) ==
    \/ a.created_at < b.created_at
    \/ a.created_at = b.created_at /\ a.id < b.id

\* Faulty variant of the victim query, ORDER BY created_at DESC: the newest
\* pending row.
newest_unsynced(s) ==
    CHOOSE r \in Unsynced(s) : \A o \in Unsynced(s) \ {r} : OrderedBefore(o, r)

\* SELECT id ... WHERE synced = 0 ORDER BY created_at ASC LIMIT 1
oldest_unsynced(s) ==
    CHOOSE r \in Unsynced(s) : \A o \in Unsynced(s) \ {r} : OrderedBefore(r, o)

delete_oldest_unsynced(s) ==
    IF Unsynced(s) = {} THEN s ELSE s \ {oldest_unsynced(s)}

NewRow(rowid, d, created) ==
    [id |-> rowid, detection_id |-> d, created_at |-> created,
     upload_attempts |-> 0, synced |-> 0]

\* Faulty variant of add_detection: the queue counts as full only above
\* MAX_QUEUE_SIZE.
add_detection_over(s, cnt, rowid, d, created) ==
    LET s1 == IF cnt > MAX_QUEUE_SIZE THEN delete_oldest_unsynced(s) ELSE s
    IN  IF \E r \in s1 : r.detection_id = d
        THEN [ok |-> FALSE, store |-> s]
        ELSE [ok |-> TRUE, store |-> s1 \cup {NewRow(rowid, d, created)}]

\* The transaction of add_detection: the queue-full DELETE, then the INSERT.
\* detection_id is UNIQUE: a collision raises IntegrityError and the
\* connection's context manager rolls the DELETE back.
add_detection(s, cnt, rowid, d, created) ==
    LET s1 == IF cnt >= MAX_QUEUE_SIZE THEN delete_oldest_unsynced(s) ELSE s
    IN  IF \E r \in s1 : r.detection_id = d
        THEN [ok |-> FALSE, store |-> s]
        ELSE [ok |-> TRUE, store |-> s1 \cup {NewRow(rowid, d, created)}]

RECURSIVE OrderAsc(_)
OrderAsc(S) ==
    IF S = {} THEN <<>>
    ELSE LET m == CHOOSE r \in S : \A o \in S \ {r} : OrderedBefore(r, o)
         IN  <<m>> \o OrderAsc(S \ {m})

Min(a, b) == IF a < b THEN a ELSE b

\* Faulty variant of the fetch, without WHERE synced = 0.
get_detections_any(s, limit) ==
    LET all == OrderAsc(s)
    IN  SubSeq(all, 1, Min(limit, Len(all)))

\* SELECT * ... WHERE synced = 0 ORDER BY created_at ASC LIMIT ?
\* (to SQLite a negative LIMIT is no limit)
get_unsynced_detections(s, limit) ==
    LET all == OrderAsc(Unsynced(s))
    IN  IF limit < 0 THEN all ELSE SubSeq(all, 1, Min(limit, Len(all)))

\* Faulty variant of mark_synced, SET synced = 1 - synced.
mark_synced_toggle(s, d) ==
    {IF r.detection_id = d THEN [r EXCEPT !.synced = 1 - @] ELSE r : r \in s}

\* Faulty variant of increment_upload_attempts, SET upload_attempts = 1.
increment_upload_attempts_once(s, d) ==
    {IF r.detection_id = d THEN [r EXCEPT !.upload_attempts = 1] ELSE r
        : r \in s}

\* UPDATE detection_queue SET synced = 1 WHERE detection_id = ?
mark_synced(s, d) ==
    {IF r.detection_id = d THEN [r EXCEPT !.synced = 1] ELSE r : r \in s}

\* UPDATE ... SET upload_attempts = upload_attempts + 1 WHERE detection_id = ?
increment_upload_attempts(s, d) ==
    {IF r.detection_id = d THEN [r EXCEPT !.upload_attempts = @ + 1] ELSE r
        : r \in s}

\* Faulty variant of the purge, created_at <= ?
cleanup_old_synced_upto(s, cutoff) ==
    {r \in s : ~(r.synced = 1 /\ r.created_at <= cutoff)}

\* DELETE FROM detection_queue WHERE synced = 1 AND created_at < ?
cleanup_old_synced(s, cutoff) ==
    {r \in s : ~(r.synced = 1 /\ r.created_at < cutoff)}

\* .rowcount of that DELETE
rowcount(s, cutoff) == Cardinality(s \ cleanup_old_synced(s, cutoff))

\* get_queue_stats: COUNT(*), COUNT(*) WHERE synced = 0, and their difference
get_queue_stats(s) ==
    [total |-> Cardinality(s), unsynced |-> count_unsynced(s),
     synced |-> Cardinality(s) - count_unsynced(s)]

\* Midnight of today, then .replace(day = day - days): ValueError when the
\* day of month would fall below 1.
CutoffRaises(t, days) == DayOfMonth(t) - days < 1
cutoff_date(t, days) == (DayOf(t) - days) * MsPerDay

\* ------------------------------------------------- the inserted metadata
\* A latitude or longitude column: NULL (None), or a REAL.
None == <<>>
Coordinates == {None} \cup {<<v>> : v \in (0 - MaxCoord)..MaxCoord}

\* Python's truth value of a column read back: None and 0.0 are false
Truthy(c) == c # None /\ c[1] # 0

\* detection_data = {...}
\* if queued_detection['latitude']: detection_data['latitude'] = ...
\* if queued_detection['longitude']: detection_data['longitude'] = ...
\* (timestamp, confidence and image_url are always there and left out here)
build_detection_data(q) ==
    [k \in {c \in {"latitude", "longitude"} : Truthy(q[c])} |-> q[k][1]]

NotBuilt == [unbuilt |-> TRUE]

\* ---------------------------------------------------------------- state
\* OFFLINE_MODE = os.environ.get("OFFLINE_MODE", "auto")
OfflineModes == {"auto", "always", "never"}
NoUpload ==
    [mode |-> "auto", at |-> "none", seq |-> 0, online |-> <<>>,
     inserted |-> FALSE, ret |-> <<>>]
NoResult == [status |-> "none", synced |-> 0, failed |-> 0, total |-> 0]
NoStats == [synced |-> 0, failed |-> 0, total |-> 0]
NoCleanup == [calls |-> 0, status |-> "none", days |-> 0, deleted |-> 0]
NoReturn == <<>>
NoAttempt ==
    [at |-> "none", id |-> 0, detection_id |-> 0, backend |-> <<>>,
     missing |-> FALSE, uploaded_id |-> None, trigger |-> "none",
     removed |-> "none", ret |-> NoReturn]

Home(t) == IF t = Main THEN "idle" ELSE "sleep"
batch_size(t) == IF t = Main THEN 1 ELSE BATCH_SIZE

\* upload_detection and the detection loop catch nothing around
\* add_detection: an exception it raises ends the process, and with it the
\* daemon thread.
Running == pc[Main] # "raised"

InitStore ==
    /\ store = {}
    /\ seq = 0
    /\ now = 0
    /\ files = {}
    /\ lock = [q \in Instances |-> "free"]
    /\ syncing = FALSE
    /\ pc = [t \in Threads |-> Home(t)]
    /\ did = 0
    /\ count = 0
    /\ batch = [t \in Threads |-> <<>>]
    /\ idx = [t \in Threads |-> 0]
    /\ stats = [t \in Threads |-> NoStats]
    /\ result = [t \in Threads |-> NoResult]
    /\ cycles = 0
    /\ inserts = [r \in RowIds |-> 0]
    /\ insertCalls = [r \in RowIds |-> 0]
    /\ log = [r \in RowIds |-> <<>>]
    /\ evicted = {}
    /\ cleanup = NoCleanup

\* upload_detection is called without coordinates (rasp_offline.py:240)
Init ==
    /\ InitStore
    /\ queued_detection = [latitude |-> None, longitude |-> None]
    /\ detection_data = NotBuilt
    /\ attempt = NoAttempt
    /\ upload = NoUpload

dataVars == <<queued_detection, detection_data, attempt, upload>>

syncVars == <<syncing, batch, idx, stats, result, cycles>>
backendVars == <<inserts, insertCalls, log>>
addVars == <<did, count, seq, evicted, cleanup>>

\* ---------------------------------------------------------------- sync_all
Return(t, r) ==
    /\ result' = [result EXCEPT ![t] = r]
    /\ pc' = [pc EXCEPT ![t] = Home(t)]

\* A call of sync_all, up to its first statement:
\* if self.syncing: return {"status": "already_syncing"}
SyncAllGuard(t) ==
    /\ cycles' = cycles + 1
    /\ IF syncing
       THEN Return(t, [NoResult EXCEPT !.status = "already_syncing"])
       ELSE /\ pc' = [pc EXCEPT ![t] = "sync_connect"]
            /\ result' = [result EXCEPT ![t] = NoResult]

\* ------------------------------------- upload_detection, the offline path
\* add_detection: detection_id from the clock, then, with self.lock,
\* SELECT COUNT(*) ... WHERE synced = 0
AddDetectionCount ==
    /\ Running
    /\ pc[Main] = "idle"
    /\ seq < MaxAdds
    /\ lock["queue"] = "free"
    /\ lock' = [lock EXCEPT !["queue"] = Main]
    /\ \E t \in Readings :
        /\ now' = t
        /\ did' = detection_id_at(t)
    /\ count' = count_unsynced(store)
    /\ pc' = [pc EXCEPT ![Main] = "add_write"]
    /\ result' = [result EXCEPT ![Main] = NoResult]
    /\ UNCHANGED dataVars
    /\ UNCHANGED <<store, seq, files, evicted, cleanup, syncing, batch, idx,
                   stats, cycles, backendVars>>

\* the DELETE/INSERT transaction with created_at from the clock, commit,
\* release of the lock
AddDetectionWrite ==
    /\ Running
    /\ pc[Main] = "add_write"
    /\ \E t \in Readings :
       LET res == add_detection(store, count, seq + 1, did, t)
       IN  /\ now' = t
           /\ store' = res.store
           /\ IF res.ok
              THEN /\ seq' = seq + 1
                   /\ files' = files \cup {seq + 1}
                   /\ evicted' = evicted \cup
                          {r.detection_id : r \in store \ res.store}
                   /\ pc' = [pc EXCEPT ![Main] = "queued"]
              ELSE /\ UNCHANGED <<seq, files, evicted>>
                   /\ pc' = [pc EXCEPT ![Main] = "raised"]
    /\ lock' = [lock EXCEPT !["queue"] = "free"]
    /\ count' = 0
    /\ did' = 0
    /\ UNCHANGED dataVars
    /\ UNCHANGED <<cleanup, syncVars, backendVars>>

\* if sync_manager and check_connection(): sync_manager.sync_all(batch_size=1)
UploadDetectionSync ==
    /\ Running
    /\ pc[Main] = "queued"
    /\ \E online \in BOOLEAN :
        IF online /\ cycles < MaxCycles
        THEN SyncAllGuard(Main)
        ELSE /\ pc' = [pc EXCEPT ![Main] = "idle"]
             /\ UNCHANGED <<cycles, result>>
    /\ UNCHANGED dataVars
    /\ UNCHANGED <<store, now, files, lock, syncing, batch, idx, stats,
                   backendVars, addVars>>

\* sync_loop: while True: self.sync_all() ... time.sleep(interval)
SyncLoop ==
    /\ Running
    /\ pc[Bg] = "sleep"
    /\ cycles < MaxCycles
    /\ SyncAllGuard(Bg)
    /\ UNCHANGED dataVars
    /\ UNCHANGED <<store, now, files, lock, syncing, batch, idx, stats,
                   backendVars, addVars>>

\* The fields of a fetched row that sync_detection reads; image_path is the
\* file of the row.
Fetched(r) == [id |-> r.id, detection_id |-> r.detection_id]

\* Faulty variant of sync_all: the guard is set before the connectivity check
\* and an unreachable backend returns without resetting it.
SyncAllConnectGuardFirst(t) ==
    /\ Running
    /\ pc[t] = "sync_connect"
    /\ \E reachable \in BOOLEAN :
        IF reachable
        THEN LET rows == get_unsynced_detections(store, batch_size(t))
             IN  IF rows = <<>>
                 THEN /\ syncing' = TRUE
                      /\ pc' = [pc EXCEPT ![t] = "sync_return"]
                      /\ UNCHANGED <<batch, stats, idx, result>>
                 ELSE /\ syncing' = TRUE
                      /\ batch' = [batch EXCEPT ![t] =
                            [i \in 1..Len(rows) |-> Fetched(rows[i])]]
                      /\ stats' = [stats EXCEPT ![t] =
                            [NoStats EXCEPT !.total = Len(rows)]]
                      /\ idx' = [idx EXCEPT ![t] = 1]
                      /\ pc' = [pc EXCEPT ![t] = "publish"]
                      /\ UNCHANGED result
        ELSE /\ Return(t, [NoResult EXCEPT !.status = "no_connection"])
             /\ syncing' = TRUE
             /\ UNCHANGED <<batch, stats, idx>>
    /\ UNCHANGED dataVars
    /\ UNCHANGED <<store, now, files, lock, cycles, backendVars, addVars>>

\* if not self.check_connection(): return no_connection
\* self.syncing = True; stats = {...}
\* unsynced = self.queue.get_unsynced_detections(limit=batch_size)
SyncAllConnect(t) ==
    /\ Running
    /\ pc[t] = "sync_connect"
    /\ \E reachable \in BOOLEAN :
        IF reachable
        THEN LET rows == get_unsynced_detections(store, batch_size(t))
             IN  IF rows = <<>>
                 THEN /\ syncing' = TRUE
                      /\ pc' = [pc EXCEPT ![t] = "sync_return"]
                      /\ UNCHANGED <<batch, stats, idx, result>>
                 ELSE /\ syncing' = TRUE
                      /\ batch' = [batch EXCEPT ![t] =
                            [i \in 1..Len(rows) |-> Fetched(rows[i])]]
                      /\ stats' = [stats EXCEPT ![t] =
                            [NoStats EXCEPT !.total = Len(rows)]]
                      /\ idx' = [idx EXCEPT ![t] = 1]
                      /\ pc' = [pc EXCEPT ![t] = "publish"]
                      /\ UNCHANGED result
        ELSE /\ Return(t, [NoResult EXCEPT !.status = "no_connection"])
             /\ UNCHANGED <<syncing, batch, stats, idx>>
    /\ UNCHANGED dataVars
    /\ UNCHANGED <<store, now, files, lock, cycles, backendVars, addVars>>

\* nothing fetched: return {"status": "completed", **stats};
\* finally: self.syncing = False
SyncAllReturn(t) ==
    /\ Running
    /\ pc[t] = "sync_return"
    /\ syncing' = FALSE
    /\ Return(t, [NoResult EXCEPT !.status = "completed"])
    /\ UNCHANGED dataVars
    /\ UNCHANGED <<store, now, files, lock, batch, idx, stats, cycles,
                   backendVars, addVars>>

Current(t) == batch[t][idx[t]]

\* Faulty variant of the loop: a failed row ends the batch.
AdvanceUntilFailure(t, st) ==
    IF idx[t] < Len(batch[t]) /\ st.failed = stats[t].failed
    THEN /\ idx' = [idx EXCEPT ![t] = @ + 1]
         /\ stats' = [stats EXCEPT ![t] = st]
         /\ pc' = [pc EXCEPT ![t] = "publish"]
         /\ UNCHANGED <<syncing, batch, result>>
    ELSE /\ idx' = [idx EXCEPT ![t] = 0]
         /\ stats' = [stats EXCEPT ![t] = NoStats]
         /\ batch' = [batch EXCEPT ![t] = <<>>]
         /\ syncing' = FALSE
         /\ Return(t, [status |-> "completed", synced |-> st.synced,
                       failed |-> st.failed, total |-> st.total])

\* Faulty variant of the loop's end: the returned stats miss the last row.
AdvanceLastUncounted(t, st) ==
    IF idx[t] < Len(batch[t])
    THEN /\ idx' = [idx EXCEPT ![t] = @ + 1]
         /\ stats' = [stats EXCEPT ![t] = st]
         /\ pc' = [pc EXCEPT ![t] = "publish"]
         /\ UNCHANGED <<syncing, batch, result>>
    ELSE /\ idx' = [idx EXCEPT ![t] = 0]
         /\ stats' = [stats EXCEPT ![t] = NoStats]
         /\ batch' = [batch EXCEPT ![t] = <<>>]
         /\ syncing' = FALSE
         /\ Return(t, [status |-> "completed", synced |-> stats[t].synced,
                       failed |-> stats[t].failed, total |-> st.total])

\* Faulty variant of the for loop: before each next row it queries the queue
\* again and appends the pending rows it has not fetched yet.
AdvanceRefetch(t, st) ==
    IF idx[t] < Len(batch[t])
    THEN LET rows == get_unsynced_detections(store, 0 - 1)
             fresh == SelectSeq(rows, LAMBDA r :
                        \A i \in 1..Len(batch[t]) : batch[t][i].id # r.id)
         IN  /\ idx' = [idx EXCEPT ![t] = @ + 1]
             /\ stats' = [stats EXCEPT ![t] = st]
             /\ pc' = [pc EXCEPT ![t] = "publish"]
             /\ batch' = [batch EXCEPT ![t] =
                   @ \o [i \in 1..Len(fresh) |-> Fetched(fresh[i])]]
             /\ UNCHANGED <<syncing, result>>
    ELSE /\ idx' = [idx EXCEPT ![t] = 0]
         /\ stats' = [stats EXCEPT ![t] = NoStats]
         /\ batch' = [batch EXCEPT ![t] = <<>>]
         /\ syncing' = FALSE
         /\ Return(t, [status |-> "completed", synced |-> st.synced,
                       failed |-> st.failed, total |-> st.total])

\* The for loop after one sync_detection with the stats as given: on to the
\* next fetched row, or, after the last,
\* return {"status": "completed", **stats}; finally: self.syncing = False
Advance(t, st) ==
    IF idx[t] < Len(batch[t])
    THEN /\ idx' = [idx EXCEPT ![t] = @ + 1]
         /\ stats' = [stats EXCEPT ![t] = st]
         /\ pc' = [pc EXCEPT ![t] = "publish"]
         /\ UNCHANGED <<syncing, batch, result>>
    ELSE /\ idx' = [idx EXCEPT ![t] = 0]
         /\ stats' = [stats EXCEPT ![t] = NoStats]
         /\ batch' = [batch EXCEPT ![t] = <<>>]
         /\ syncing' = FALSE
         /\ Return(t, [status |-> "completed", synced |-> st.synced,
                       failed |-> st.failed, total |-> st.total])

Logged(r, what) == log' = [log EXCEPT ![r] = Append(@, what)]

\* ---------------------------------------------------------- sync_detection
\* Faulty variant of sync_detection: it takes the lock of the producer's
\* queue before the network calls and keeps it.
SyncDetectionPublishLocked(t) ==
    /\ Running
    /\ pc[t] = "publish"
    /\ \E exists \in {e \in BOOLEAN : e => Current(t).id \in files},
          uploaded \in BOOLEAN, inserted \in BOOLEAN :
        IF ~exists
        THEN /\ files' = files \ {Current(t).id}
             /\ Logged(Current(t).id, "missing")
             /\ Advance(t, [stats[t] EXCEPT !.failed = @ + 1])
             /\ UNCHANGED <<inserts, insertCalls>>
        ELSE /\ UNCHANGED <<files, syncing, batch, idx, stats, result, log>>
             /\ IF ~uploaded
                THEN /\ pc' = [pc EXCEPT ![t] = "fail_upload"]
                     /\ UNCHANGED <<inserts, insertCalls>>
                ELSE /\ insertCalls' =
                            [insertCalls EXCEPT ![Current(t).id] = @ + 1]
                     /\ inserts' = [inserts EXCEPT ![Current(t).id] =
                                        IF inserted THEN @ + 1 ELSE @]
                     /\ pc' = [pc EXCEPT ![t] =
                            IF inserted THEN "pub_synced" ELSE "fail_insert"]
    /\ UNCHANGED dataVars
    /\ lock["queue"] = "free"
    /\ lock' = [lock EXCEPT !["queue"] = t]
    /\ UNCHANGED <<store, now, cycles, addVars>>

\* The calls of sync_detection that leave the device, up to the first call
\* on the queue:
\* if not os.path.exists(image_path): return False, None  (offline image
\*     storage may have been cleared out of band; once gone a file stays gone)
\* the storage upload: a falsy result or an exception leads to
\*     increment_upload_attempts
\* the snake_detections insert: no data in the response or an exception
\*     leads to increment_upload_attempts
SyncDetectionPublish(t) ==
    /\ Running
    /\ pc[t] = "publish"
    /\ \E exists \in {e \in BOOLEAN : e => Current(t).id \in files},
          uploaded \in BOOLEAN, inserted \in BOOLEAN :
        IF ~exists
        THEN /\ files' = files \ {Current(t).id}
             /\ Logged(Current(t).id, "missing")
             /\ Advance(t, [stats[t] EXCEPT !.failed = @ + 1])
             /\ UNCHANGED <<inserts, insertCalls>>
        ELSE /\ UNCHANGED <<files, syncing, batch, idx, stats, result, log>>
             /\ IF ~uploaded
                THEN /\ pc' = [pc EXCEPT ![t] = "fail_upload"]
                     /\ UNCHANGED <<inserts, insertCalls>>
                ELSE /\ insertCalls' =
                            [insertCalls EXCEPT ![Current(t).id] = @ + 1]
                     /\ inserts' = [inserts EXCEPT ![Current(t).id] =
                                        IF inserted THEN @ + 1 ELSE @]
                     /\ pc' = [pc EXCEPT ![t] =
                            IF inserted THEN "pub_synced" ELSE "fail_insert"]
    /\ UNCHANGED dataVars
    /\ UNCHANGED <<store, now, lock, cycles, addVars>>

\* self.queue.mark_synced(detection_id); trigger; os.remove(image_path);
\* return True, uploaded_id; stats["synced"] += 1
SyncDetectionSynced(t) ==
    /\ Running
    /\ pc[t] = "pub_synced"
    /\ lock["sync_manager.queue"] = "free"
    /\ store' = mark_synced(store, Current(t).detection_id)
    /\ files' = files \ {Current(t).id}
    /\ Logged(Current(t).id, "ok")
    /\ Advance(t, [stats[t] EXCEPT !.synced = @ + 1])
    /\ UNCHANGED dataVars
    /\ UNCHANGED <<now, lock, cycles, inserts, insertCalls, addVars>>

\* self.queue.increment_upload_attempts(detection_id); return False, None;
\* stats["failed"] += 1
SyncDetectionFailed(t) ==
    /\ Running
    /\ pc[t] \in {"fail_upload", "fail_insert"}
    /\ lock["sync_manager.queue"] = "free"
    /\ store' = increment_upload_attempts(store, Current(t).detection_id)
    /\ Logged(Current(t).id,
              IF pc[t] = "fail_upload" THEN "upload" ELSE "insert")
    /\ Advance(t, [stats[t] EXCEPT !.failed = @ + 1])
    /\ UNCHANGED dataVars
    /\ UNCHANGED <<now, files, lock, cycles, inserts, insertCalls, addVars>>

\* ------------------------------------------------------ cleanup_old_synced
\* Neither thread of rasp_offline.py calls it: it is an operation of the
\* queue for other callers, part of NextQueue and not of Next.
\* cutoff_date from the clock (ValueError from .replace leaves the method
\* before the lock), then with self.lock the DELETE, and return deleted
CleanupOldSynced ==
    /\ Running
    /\ \E q \in Instances : lock[q] = "free"
    /\ \E days \in 0..MaxDays, t \in Readings :
        /\ now' = t
        /\ IF CutoffRaises(t, days)
           THEN /\ store' = store
                /\ cleanup' = [calls |-> 1 - cleanup.calls,
                               status |-> "raised", days |-> days,
                               deleted |-> 0]
           ELSE /\ store' = cleanup_old_synced(store, cutoff_date(t, days))
                /\ cleanup' = [calls |-> 1 - cleanup.calls,
                               status |-> "returned", days |-> days,
                               deleted |-> rowcount(store,
                                                    cutoff_date(t, days))]
    /\ UNCHANGED dataVars
    /\ UNCHANGED <<files, lock, pc, syncVars, backendVars, did, count, seq,
                   evicted>>

Next ==
    \/ AddDetectionCount
    \/ AddDetectionWrite
    \/ UploadDetectionSync
    \/ SyncLoop
    \/ \E t \in Threads : SyncAllConnect(t)
    \/ \E t \in Threads : SyncAllReturn(t)
    \/ \E t \in Threads : SyncDetectionPublish(t)
    \/ \E t \in Threads : SyncDetectionSynced(t)
    \/ \E t \in Threads : SyncDetectionFailed(t)

Spec == Init /\ [][Next]_vars

\* ------------------------------------------- the queue under any callers
\* OfflineQueue taken alone: besides add_detection and cleanup_old_synced,
\* callers on any thread call mark_synced and increment_upload_attempts with
\* any detection id, through either instance.  A caller of add_detection
\* that gets IntegrityError goes on.
DetectionIds == 0..(MaxClock + 1)

AddDetectionReturn ==
    /\ pc[Main] \in {"queued", "raised"}
    /\ pc' = [pc EXCEPT ![Main] = "idle"]
    /\ UNCHANGED dataVars
    /\ UNCHANGED <<store, now, files, lock, syncVars, backendVars, addVars>>

\* with self.lock: UPDATE ... SET synced = 1 WHERE detection_id = ?
MarkSynced ==
    /\ \E q \in Instances : lock[q] = "free"
    /\ \E d \in DetectionIds : store' = mark_synced(store, d)
    /\ UNCHANGED dataVars
    /\ UNCHANGED <<now, files, lock, pc, syncVars, backendVars, addVars>>

\* with self.lock: UPDATE ... SET upload_attempts = upload_attempts + 1 ...
IncrementUploadAttempts ==
    /\ \E q \in Instances : lock[q] = "free"
    /\ \E d \in DetectionIds :
        /\ \A r \in store :
              r.detection_id = d => r.upload_attempts < MaxAttempts
        /\ store' = increment_upload_attempts(store, d)
    /\ UNCHANGED dataVars
    /\ UNCHANGED <<now, files, lock, pc, syncVars, backendVars, addVars>>

NextQueue ==
    \/ AddDetectionCount
    \/ AddDetectionWrite
    \/ AddDetectionReturn
    \/ MarkSynced
    \/ IncrementUploadAttempts
    \/ CleanupOldSynced

SpecQueue == Init /\ [][NextQueue]_vars

\* --------------------------------------- the program with raising cycles
\* Faulty variant of sync_loop: no try around self.sync_all(), the exception
\* ends the thread.
SyncAllRaiseUncaught(t) ==
    /\ Running
    /\ pc[t] \in {"fail_upload", "fail_insert"}
    /\ syncing' = FALSE
    /\ batch' = [batch EXCEPT ![t] = <<>>]
    /\ idx' = [idx EXCEPT ![t] = 0]
    /\ stats' = [stats EXCEPT ![t] = NoStats]
    /\ pc' = [pc EXCEPT ![t] = IF t = Bg THEN "ended" ELSE "raised"]
    /\ UNCHANGED dataVars
    /\ UNCHANGED <<store, now, files, lock, result, cycles, backendVars,
                   addVars>>

\* Faulty variant of sync_all: no finally, an exception leaves the guard set.
SyncAllRaiseNoFinally(t) ==
    /\ Running
    /\ pc[t] \in {"fail_upload", "fail_insert"}
    /\ batch' = [batch EXCEPT ![t] = <<>>]
    /\ idx' = [idx EXCEPT ![t] = 0]
    /\ stats' = [stats EXCEPT ![t] = NoStats]
    /\ pc' = [pc EXCEPT ![t] = IF t = Bg THEN "sleep" ELSE "raised"]
    /\ UNCHANGED dataVars
    /\ UNCHANGED <<store, now, files, lock, syncing, result, cycles,
                   backendVars, addVars>>

\* An exception that leaves sync_all: raised inside sync_detection's except
\* handler (by its print, or by increment_upload_attempts), it passes
\* sync_all's finally: self.syncing = False.  sync_loop catches it, prints
\* and sleeps; upload_detection does not catch it and the process ends.
SyncAllRaise(t) ==
    /\ Running
    /\ pc[t] \in {"fail_upload", "fail_insert"}
    /\ syncing' = FALSE
    /\ batch' = [batch EXCEPT ![t] = <<>>]
    /\ idx' = [idx EXCEPT ![t] = 0]
    /\ stats' = [stats EXCEPT ![t] = NoStats]
    /\ pc' = [pc EXCEPT ![t] = IF t = Bg THEN "sleep" ELSE "raised"]
    /\ UNCHANGED dataVars
    /\ UNCHANGED <<store, now, files, lock, result, cycles, backendVars,
                   addVars>>

NextLive ==
    \/ Next
    \/ \E t \in Threads : SyncAllRaise(t)

\* the steps of the background thread: its sleep ends, and the calls it
\* makes (local, or network calls with a timeout) return
BgNext ==
    \/ SyncLoop
    \/ SyncAllConnect(Bg)
    \/ SyncAllReturn(Bg)
    \/ SyncDetectionPublish(Bg)
    \/ SyncDetectionSynced(Bg)
    \/ SyncDetectionFailed(Bg)
    \/ SyncAllRaise(Bg)

SpecLive == Init /\ [][NextLive]_vars /\ WF_vars(BgNext)

\* ------------------------------- sync_detection's metadata for any record
\* The row in hand has any latitude and longitude that add_detection can
\* have been given; sync_detection builds the dict it inserts.
InitData ==
    /\ InitStore
    /\ queued_detection \in [latitude : Coordinates, longitude : Coordinates]
    /\ detection_data = NotBuilt
    /\ attempt = NoAttempt
    /\ upload = NoUpload

SyncDetectionBuild ==
    /\ detection_data = NotBuilt
    /\ detection_data' = build_detection_data(queued_detection)
    /\ UNCHANGED <<store, now, files, lock, pc, syncVars, backendVars,
                   addVars, queued_detection, attempt, upload>>

NextData == SyncDetectionBuild

SpecData == InitData /\ [][NextData]_vars

\* ------------------------------ sync_detection, statement by statement
\* One caller hands pending rows to sync_detection, one call at a time, while
\* the detection loop goes on adding; every network call and every file
\* operation of the call is a step with each of its outcomes.
RECURSIVE SumUpTo(_, _)
SumUpTo(f, n) == IF n = 0 THEN 0 ELSE f[n] + SumUpTo(f, n - 1)

\* response.data[0].get('id'): the backend numbers the rows it inserts
uploaded_id_next == <<SumUpTo(inserts, MaxAdds) + 1>>

attemptVars == <<queued_detection, detection_data, upload>>

\* return success, id
Returns(a, success, id, what) ==
    /\ attempt' = [a EXCEPT !.at = "returned", !.ret = <<success, id>>]
    /\ Logged(attempt.id, what)

\* except Exception: self.queue.increment_upload_attempts(detection_id);
\* return False, None  (also the two explicit failure returns)
Fails(a, what) ==
    /\ lock["sync_manager.queue"] = "free"
    /\ store' = increment_upload_attempts(store, attempt.detection_id)
    /\ Returns(a, FALSE, None, what)

\* detection_id = queued_detection['detection_id']; image_path = ...
SyncDetectionCall ==
    /\ Running
    /\ attempt.at = "none"
    /\ \E r \in Unsynced(store) :
        /\ Len(log[r.id]) <= MaxAttempts
        /\ attempt' = [NoAttempt EXCEPT !.at = "exists", !.id = r.id,
                                        !.detection_id = r.detection_id]
    /\ UNCHANGED attemptVars
    /\ UNCHANGED <<store, now, files, lock, pc, syncVars, backendVars,
                   addVars>>

\* Faulty variant of the check: a row whose image is missing is taken for
\* published and the call goes on at mark_synced.
SyncDetectionExistsSkips ==
    /\ Running
    /\ attempt.at = "exists"
    /\ \E exists \in {e \in BOOLEAN : e => attempt.id \in files} :
        /\ files' = IF exists THEN files ELSE files \ {attempt.id}
        /\ attempt' = [attempt EXCEPT
                          !.at = IF exists THEN "upload" ELSE "mark_synced",
                          !.missing = ~exists]
    /\ UNCHANGED attemptVars
    /\ UNCHANGED <<store, now, lock, pc, syncVars, backendVars, addVars>>

\* if not os.path.exists(image_path): return False, None
SyncDetectionExists ==
    /\ Running
    /\ attempt.at = "exists"
    /\ \E exists \in {e \in BOOLEAN : e => attempt.id \in files} :
        IF exists
        THEN /\ attempt' = [attempt EXCEPT !.at = "upload"]
             /\ UNCHANGED <<files, log>>
        ELSE /\ files' = files \ {attempt.id}
             /\ Returns([attempt EXCEPT !.missing = TRUE], FALSE, None,
                        "missing")
    /\ UNCHANGED attemptVars
    /\ UNCHANGED <<store, now, lock, pc, syncVars, inserts, insertCalls,
                   addVars>>

\* with open(image_path, "rb") as f: result = ...upload(image_name, f)
\* open raises when the file went after the check; the upload returns a
\* result, a falsy result, or raises
SyncDetectionUpload ==
    /\ Running
    /\ attempt.at = "upload"
    /\ \E outcome \in {"no_file", "ok", "falsy", "raised"} :
        /\ IF outcome = "no_file"
           THEN /\ files' = files \ {attempt.id}
                /\ Fails([attempt EXCEPT !.missing = TRUE], "upload")
           ELSE /\ files' = files
                /\ IF outcome = "ok"
                   THEN /\ attempt' = [attempt EXCEPT !.at = "get_public_url",
                                  !.backend = Append(@, "upload")]
                        /\ UNCHANGED <<store, log>>
                   ELSE Fails([attempt EXCEPT
                                  !.backend = Append(@, "upload")], "upload")
    /\ UNCHANGED attemptVars
    /\ UNCHANGED <<now, lock, pc, syncVars, inserts, insertCalls, addVars>>

\* public_url = self.supabase.storage.from_("snake-images").get_public_url(..)
SyncDetectionPublicUrl ==
    /\ Running
    /\ attempt.at = "get_public_url"
    /\ \E raised \in BOOLEAN :
        IF raised
        THEN Fails([attempt EXCEPT !.backend = Append(@, "get_public_url")],
                   "upload")
        ELSE /\ attempt' = [attempt EXCEPT !.at = "insert",
                               !.backend = Append(@, "get_public_url")]
             /\ UNCHANGED <<store, log>>
    /\ UNCHANGED attemptVars
    /\ UNCHANGED <<now, files, lock, pc, syncVars, inserts, insertCalls,
                   addVars>>

\* response = self.supabase.table("snake_detections").insert(..).execute()
\* if response.data and len(response.data) > 0: uploaded_id = ...
SyncDetectionInsert ==
    /\ Running
    /\ attempt.at = "insert"
    /\ insertCalls' = [insertCalls EXCEPT ![attempt.id] = @ + 1]
    /\ \E outcome \in {"data", "no_data", "raised"} :
        IF outcome = "data"
        THEN /\ inserts' = [inserts EXCEPT ![attempt.id] = @ + 1]
             /\ attempt' = [attempt EXCEPT !.at = "mark_synced",
                               !.backend = Append(@, "insert"),
                               !.uploaded_id = uploaded_id_next]
             /\ UNCHANGED <<store, log>>
        ELSE /\ inserts' = inserts
             /\ Fails([attempt EXCEPT !.backend = Append(@, "insert")],
                      "insert")
    /\ UNCHANGED attemptVars
    /\ UNCHANGED <<now, files, lock, pc, syncVars, addVars>>

\* self.queue.mark_synced(detection_id)
SyncDetectionMarkSynced ==
    /\ Running
    /\ attempt.at = "mark_synced"
    /\ lock["sync_manager.queue"] = "free"
    /\ store' = mark_synced(store, attempt.detection_id)
    /\ attempt' = [attempt EXCEPT !.at = "trigger"]
    /\ UNCHANGED attemptVars
    /\ UNCHANGED <<now, files, lock, pc, syncVars, backendVars, addVars>>

\* Faulty variant of the trigger: no try around requests.post, its exception
\* reaches the outer handler.
SyncDetectionTriggerCritical ==
    /\ Running
    /\ attempt.at = "trigger"
    /\ \E auto_trigger \in BOOLEAN, posted \in BOOLEAN :
        IF ~auto_trigger
        THEN /\ attempt' = [attempt EXCEPT !.at = "remove", !.trigger = "off"]
             /\ UNCHANGED <<store, log>>
        ELSE IF posted
        THEN /\ attempt' = [attempt EXCEPT !.at = "remove", !.trigger = "ok",
                               !.backend = Append(@, "trigger")]
             /\ UNCHANGED <<store, log>>
        ELSE Fails([attempt EXCEPT !.trigger = "failed",
                       !.backend = Append(@, "trigger")], "insert")
    /\ UNCHANGED attemptVars
    /\ UNCHANGED <<now, files, lock, pc, syncVars, inserts, insertCalls,
                   addVars>>

\* auto_trigger = os.environ.get("AUTO_TRIGGER_PIPELINE", "0") == "1"
\* if auto_trigger: try: requests.post(...) except Exception: print(...)
SyncDetectionTrigger ==
    /\ Running
    /\ attempt.at = "trigger"
    /\ \E auto_trigger \in BOOLEAN, posted \in BOOLEAN :
        attempt' = [attempt EXCEPT
            !.at = "remove",
            !.trigger = IF ~auto_trigger THEN "off"
                        ELSE IF posted THEN "ok" ELSE "failed",
            !.backend = IF auto_trigger THEN Append(@, "trigger") ELSE @]
    /\ UNCHANGED attemptVars
    /\ UNCHANGED <<store, now, files, lock, pc, syncVars, backendVars,
                   addVars>>

\* try: os.remove(image_path) except: pass; return True, uploaded_id
SyncDetectionRemove ==
    /\ Running
    /\ attempt.at = "remove"
    /\ \E removed \in {e \in BOOLEAN : e => attempt.id \in files} :
        /\ files' = IF removed THEN files \ {attempt.id} ELSE files
        /\ Returns([attempt EXCEPT
                       !.removed = IF removed THEN "ok" ELSE "failed"],
                   TRUE, attempt.uploaded_id, "ok")
    /\ UNCHANGED attemptVars
    /\ UNCHANGED <<store, now, lock, pc, syncVars, inserts, insertCalls,
                   addVars>>

\* the caller has the returned value; its next call may follow
SyncDetectionDone ==
    /\ attempt.at = "returned"
    /\ attempt' = NoAttempt
    /\ UNCHANGED attemptVars
    /\ UNCHANGED <<store, now, files, lock, pc, syncVars, backendVars,
                   addVars>>

NextSync ==
    \/ AddDetectionCount
    \/ AddDetectionWrite
    \/ AddDetectionReturn
    \/ SyncDetectionCall
    \/ SyncDetectionExists
    \/ SyncDetectionUpload
    \/ SyncDetectionPublicUrl
    \/ SyncDetectionInsert
    \/ SyncDetectionMarkSynced
    \/ SyncDetectionTrigger
    \/ SyncDetectionRemove
    \/ SyncDetectionDone

SpecSync == Init /\ [][NextSync]_vars

\* ------------------------------- the sync loop against a reachable backend
\* The background loop alone, for as long as it runs: nothing is added, the
\* connectivity check succeeds, uploads and inserts succeed, and a publish
\* fails only for a row whose image is missing.  The queue starts with one
\* pending row more than a batch holds (the source's queue holds 1000 and a
\* batch 5; the scaled MAX_QUEUE_SIZE equals BATCH_SIZE and is not used
\* here), and any of the images may be missing.
Backlog == 1..(BATCH_SIZE + 1)

PendingStores ==
    {{NewRow(i, detection_id_at(i - 1), c[i]) : i \in Backlog} :
        c \in {c \in [Backlog -> 0..MaxClock] :
                 \A i \in Backlog :
                    /\ c[i] >= i - 1
                    /\ i + 1 \in Backlog => c[i] <= c[i + 1]}}

InitProgress ==
    /\ store \in PendingStores
    /\ seq = BATCH_SIZE + 1
    /\ now = MaxClock
    /\ files \in SUBSET Backlog
    /\ lock = [q \in Instances |-> "free"]
    /\ syncing = FALSE
    /\ pc = [t \in Threads |-> Home(t)]
    /\ did = 0
    /\ count = 0
    /\ batch = [t \in Threads |-> <<>>]
    /\ idx = [t \in Threads |-> 0]
    /\ stats = [t \in Threads |-> NoStats]
    /\ result = [t \in Threads |-> NoResult]
    /\ cycles = 0
    /\ inserts = [r \in RowIds |-> 0]
    /\ insertCalls = [r \in RowIds |-> 0]
    /\ log = [r \in RowIds |-> <<>>]
    /\ evicted = {}
    /\ cleanup = NoCleanup
    /\ queued_detection = [latitude |-> None, longitude |-> None]
    /\ detection_data = NotBuilt
    /\ attempt = NoAttempt
    /\ upload = NoUpload

\* sync_loop's next self.sync_all(), any number of times (not counted)
ProgressSyncLoop ==
    /\ pc[Bg] = "sleep"
    /\ IF syncing
       THEN Return(Bg, [NoResult EXCEPT !.status = "already_syncing"])
       ELSE /\ pc' = [pc EXCEPT ![Bg] = "sync_connect"]
            /\ result' = [result EXCEPT ![Bg] = NoResult]
    /\ UNCHANGED dataVars
    /\ UNCHANGED <<store, now, files, lock, syncing, batch, idx, stats,
                   cycles, backendVars, addVars>>

\* check_connection() is true
ProgressFetch == SyncAllConnect(Bg) /\ pc'[Bg] # Home(Bg)

\* sync_detection with a backend that works: False, None for a missing
\* image, else upload, insert, mark_synced, os.remove and True, uploaded_id
\* (the outcomes of the attempts are not logged)
ProgressSyncDetection ==
    /\ pc[Bg] = "publish"
    /\ IF Current(Bg).id \notin files
       THEN /\ Advance(Bg, [stats[Bg] EXCEPT !.failed = @ + 1])
            /\ UNCHANGED <<store, files, inserts, insertCalls>>
       ELSE /\ insertCalls' = [insertCalls EXCEPT ![Current(Bg).id] = @ + 1]
            /\ inserts' = [inserts EXCEPT ![Current(Bg).id] = @ + 1]
            /\ store' = mark_synced(store, Current(Bg).detection_id)
            /\ files' = files \ {Current(Bg).id}
            /\ Advance(Bg, [stats[Bg] EXCEPT !.synced = @ + 1])
    /\ UNCHANGED dataVars
    /\ UNCHANGED <<now, lock, cycles, log, addVars>>

NextProgress ==
    \/ ProgressSyncLoop
    \/ ProgressFetch
    \/ SyncAllReturn(Bg)
    \/ ProgressSyncDetection

\* cycles keep running: the loop's sleep ends and its calls return
SpecProgress == InitProgress /\ [][NextProgress]_vars /\ WF_vars(NextProgress)

\* ----------------------------------------- upload_detection, both paths
\* The detection loop calling upload_detection under any OFFLINE_MODE, with
\* or without a Supabase client, the immediate sync_all included; the
\* background thread is left out, so the immediate sync_all always finds the
\* row just queued and never returns from an empty fetch.
uploadVars == <<queued_detection, detection_data, attempt>>

InitUpload ==
    /\ InitStore
    /\ queued_detection = [latitude |-> None, longitude |-> None]
    /\ detection_data = NotBuilt
    /\ attempt = NoAttempt
    /\ upload \in {[NoUpload EXCEPT !.mode = m] : m \in OfflineModes}

\* is_online = check_connection() if OFFLINE_MODE == "auto"
\*             else (OFFLINE_MODE == "never")
\* if is_online and supabase: ...
UploadDetectionCall ==
    /\ Running
    /\ pc[Main] = "idle"
    /\ upload.at \in {"none", "returned"}
    /\ seq < MaxAdds
    /\ \E connected \in BOOLEAN, supabase \in BOOLEAN :
        LET is_online == IF upload.mode = "auto" THEN connected
                         ELSE upload.mode = "never"
        IN  upload' = [NoUpload EXCEPT
                          !.mode = upload.mode,
                          !.seq = seq,
                          !.at = IF is_online /\ supabase THEN "online"
                                 ELSE "offline"]
    /\ UNCHANGED uploadVars
    /\ UNCHANGED <<store, now, files, lock, pc, syncVars, backendVars,
                   addVars>>

\* try: upload; if result: get_public_url, insert;
\*      if response.data and len(response.data) > 0: return True, detection_id
\* except Exception: print  -- every other outcome falls through to the queue
UploadDetectionOnline ==
    /\ Running
    /\ upload.at = "online"
    /\ \E outcome \in {"upload_raised", "upload_falsy", "insert_raised",
                       "no_data", "data"} :
        LET calls == IF outcome \in {"upload_raised", "upload_falsy"}
                     THEN <<"upload">> ELSE <<"upload", "insert">>
        IN  IF outcome = "data"
            THEN upload' = [upload EXCEPT
                               !.at = "returned", !.online = calls,
                               !.inserted = TRUE,
                               !.ret = <<TRUE, uploaded_id_next>>]
            ELSE upload' = [upload EXCEPT !.at = "offline", !.online = calls]
    /\ UNCHANGED uploadVars
    /\ UNCHANGED <<store, now, files, lock, pc, syncVars, backendVars,
                   addVars>>

\* if OFFLINE_MODE in ["auto", "always"]: shutil.copy2(...);
\* detection_id = queue.add_detection(...): its COUNT
UploadDetectionQueue ==
    /\ upload.at = "offline"
    /\ upload.mode \in {"auto", "always"}
    /\ seq = upload.seq
    /\ AddDetectionCount

\* add_detection's transaction; IntegrityError is not caught
UploadDetectionQueued ==
    /\ upload.at = "offline"
    /\ AddDetectionWrite

\* the immediate sync_all(batch_size=1) has returned, or was not called:
\* return True, detection_id
UploadDetectionReturn ==
    /\ Running
    /\ upload.at = "offline"
    /\ pc[Main] = "idle"
    /\ seq > upload.seq
    /\ upload' = [upload EXCEPT
                     !.at = "returned",
                     !.ret = <<TRUE, <<(CHOOSE r \in store : r.id = seq)
                                          .detection_id>>>>]
    /\ UNCHANGED uploadVars
    /\ UNCHANGED <<store, now, files, lock, pc, syncVars, backendVars,
                   addVars>>

\* print("Upload failed and offline mode disabled"); return False, None
UploadDetectionRefused ==
    /\ Running
    /\ upload.at = "offline"
    /\ upload.mode = "never"
    /\ upload' = [upload EXCEPT !.at = "returned", !.ret = <<FALSE, None>>]
    /\ UNCHANGED uploadVars
    /\ UNCHANGED <<store, now, files, lock, pc, syncVars, backendVars,
                   addVars>>

NextUpload ==
    \/ UploadDetectionCall
    \/ UploadDetectionOnline
    \/ UploadDetectionQueue
    \/ UploadDetectionQueued
    \/ UploadDetectionSync
    \/ SyncAllConnect(Main)
    \/ SyncDetectionPublish(Main)
    \/ SyncDetectionSynced(Main)
    \/ SyncDetectionFailed(Main)
    \/ UploadDetectionReturn
    \/ UploadDetectionRefused

SpecUpload == InitUpload /\ [][NextUpload]_vars

\* ------------------------------------------------------------------ claims
UniqueDetectionIds(s) ==
    \A a, b \in s : a.detection_id = b.detection_id => a = b

Other(t) == IF t = Main THEN Bg ELSE Main

\* between the connectivity check's success and the return of sync_all
InCycle(t) ==
    pc[t] \in {"sync_return", "publish", "pub_synced", "fail_upload",
               "fail_insert"}

\* inside sync_detection, or between it and the queue update that follows
Publishing(t) ==
    pc[t] \in {"publish", "pub_synced", "fail_upload", "fail_insert"}

\* sync_all has been called and has not returned
Started(t) == pc[t] = "sync_connect" \/ InCycle(t)

\* this step is thread t calling sync_all
CallStep(t) ==
    /\ pc[t] = (IF t = Main THEN "queued" ELSE "sleep")
    /\ cycles' = cycles + 1

\* this step is add_detection's transaction ending, committed or raised
AddStep == pc[Main] = "add_write" /\ pc'[Main] # "add_write"

\* C1: in every reachable state at most MAX_QUEUE_SIZE rows have synced = 0.
C1_Capacity == count_unsynced(store) <= MAX_QUEUE_SIZE

C1_Witness == evicted # {} /\ count_unsynced(store) = MAX_QUEUE_SIZE

\* C2: a sync_all called while another invocation has started and not
\* returned returns already_syncing and changes neither the store nor the
\* backend, and two invocations are never both past the connectivity check.
C2_SingleFlight ==
    [][/\ \A t \in Threads :
            CallStep(t) /\ Started(Other(t)) =>
                /\ result'[t].status = "already_syncing"
                /\ store' = store
                /\ inserts' = inserts
       /\ ~(InCycle(Main)' /\ InCycle(Bg)')]_vars

\* C3: no row is in the hands of sync_detection of two cycles at once, and no
\* row gets more than one successful metadata insert.
C3_NoDoublePublish ==
    /\ \A r \in RowIds : inserts[r] <= 1
    /\ ~(Publishing(Main) /\ Publishing(Bg)
            /\ Current(Main).id = Current(Bg).id)

Quiet == \A t \in Threads : ~Started(t)
FailFailOk == {<<a, b, "ok">> : a, b \in {"upload", "insert"}}
InsertAttempts(r) ==
    Cardinality({i \in 1..Len(log[r]) : log[r][i] \in {"insert", "ok"}})

\* C4: once no cycle is running, a row in the store whose publish attempts
\* were two failures (at upload or at insert) and then a success has
\* synced = 1 and upload_attempts = 2 and exactly one successful insert at
\* the backend, its detection id being no evicted row's; and the backend got
\* an insert request only from the attempts that passed the upload.
C4_FlakyBackend ==
    Quiet =>
        /\ \A r \in store :
              log[r.id] \in FailFailOk /\ r.detection_id \notin evicted =>
                  r.synced = 1 /\ r.upload_attempts = 2 /\ inserts[r.id] = 1
        /\ \A r \in RowIds : insertCalls[r] = InsertAttempts(r)

C4_Witness ==
    Quiet /\ \E r \in store :
                /\ log[r.id] = <<"upload", "insert", "ok">>
                /\ r.detection_id \notin evicted

\* C5: every publish attempt that ends in failure, whatever the cause,
\* increments the row's upload_attempts by one and leaves the row pending.
C5_FailureIncrements ==
    [][\A rid \in RowIds :
          (/\ Len(log'[rid]) = Len(log[rid]) + 1
           /\ log'[rid][Len(log'[rid])] # "ok") =>
              \A r \in store :
                  r.id = rid =>
                      /\ r.synced = 0
                      /\ [r EXCEPT !.upload_attempts = @ + 1] \in store']_vars

\* C6: an add_detection that commits deletes at most one row and never a
\* synced one; with MAX_QUEUE_SIZE or more rows pending (or counted as
\* pending, and one is still pending at the DELETE) it deletes exactly one, a
\* pending row of the smallest created_at; having counted fewer it deletes
\* none.
C6_EvictionVictim ==
    [][(AddStep /\ pc'[Main] = "queued") =>
          /\ (store \ store') \subseteq Unsynced(store)
          /\ Cardinality(store \ store') <= 1
          /\ (\/ count_unsynced(store) >= MAX_QUEUE_SIZE
              \/ count >= MAX_QUEUE_SIZE /\ Unsynced(store) # {}) =>
                \E v \in Unsynced(store) :
                    /\ store \ store' = {v}
                    /\ \A o \in Unsynced(store) :
                          v.created_at <= o.created_at
          /\ count < MAX_QUEUE_SIZE => store \subseteq store']_vars

C6_Witness ==
    /\ pc[Main] = "queued"
    /\ evicted # {}
    /\ \E r \in store : r.synced = 1

\* C7: a synced row is never changed again; it can only be deleted, and only
\* by cleanup_old_synced.
C7_SyncedIsFinal ==
    [][\A r \in store :
          r.synced = 1 =>
              \/ r \in store'
              \/ (\A q \in store' : q.id # r.id) /\ pc' = pc]_vars

\* C8: every add_detection returns a detection id, leaving the new row in
\* the store, pending, and no two rows share a detection_id.
C8_AddAlwaysSucceeds ==
    [][AddStep =>
          /\ pc'[Main] = "queued"
          /\ \E r \in store' :
                r.id = seq' /\ r.detection_id = did /\ r.synced = 0
          /\ UniqueDetectionIds(store')]_vars

\* C9: mark_synced a second time changes nothing, and mark_synced and
\* increment_upload_attempts of an id that no row has change nothing.
C9_MarkSyncedIdempotent ==
    \A d \in DetectionIds :
        /\ mark_synced(mark_synced(store, d), d) = mark_synced(store, d)
        /\ (\A r \in store : r.detection_id # d) =>
              /\ mark_synced(store, d) = store
              /\ increment_upload_attempts(store, d) = store

C9_Witness ==
    /\ \E r \in store : r.synced = 1 /\ r.upload_attempts > 0
    /\ \E r \in store : r.synced = 0
    /\ evicted # {}
    /\ \E d \in DetectionIds :
          d <= MaxClock /\ \A r \in store : r.detection_id # d

Limits == 0..(MaxAdds + 1)

\* C10: get_unsynced_detections(n) returns min(n, pending) distinct pending
\* rows in non-decreasing created_at order, none newer than a pending row it
\* leaves out.
C10_FifoFetch ==
    \A n \in Limits :
        LET got == get_unsynced_detections(store, n)
            rows == {got[i] : i \in 1..Len(got)}
        IN  /\ Len(got) = Min(n, count_unsynced(store))
            /\ Cardinality(rows) = Len(got)
            /\ rows \subseteq Unsynced(store)
            /\ \A i, j \in 1..Len(got) :
                  i < j => got[i].created_at <= got[j].created_at
            /\ \A r \in rows, o \in Unsynced(store) \ rows :
                  r.created_at <= o.created_at

C10_Witness ==
    /\ \E a, b \in Unsynced(store) : a.created_at < b.created_at
    /\ \E r \in store, o \in Unsynced(store) :
          r.synced = 1 /\ r.created_at < o.created_at

\* this step is a call of cleanup_old_synced
CleanupStep == cleanup'.calls # cleanup.calls

\* C11: a cleanup_old_synced that returns deletes the synced rows whose
\* created_at is before the cutoff and no other row: pending rows and synced
\* rows at or after the cutoff stay as they are; and it returns the number of
\* rows it deleted.
C11_RetentionBoundary ==
    [][(CleanupStep /\ cleanup'.status = "returned") =>
          LET c == cutoff_date(now', cleanup'.days)
          IN  /\ store' \subseteq store
              /\ \A r \in store :
                    r \in store' <=> ~(r.synced = 1 /\ r.created_at < c)
              /\ cleanup'.deleted = Cardinality(store \ store')]_vars

C11_Witness ==
    /\ cleanup.status = "returned"
    /\ cleanup.deleted > 0
    /\ \E r \in store :
          r.synced = 1 /\ r.created_at = cutoff_date(now, cleanup.days)
    /\ \E r \in store :
          r.synced = 0 /\ r.created_at < cutoff_date(now, cleanup.days)

\* C14: every cleanup_old_synced(days) returns, whatever the date and the
\* days, having deleted exactly the synced rows older than the clock reading
\* less days days.
C14_CutoffAnyDate ==
    [][CleanupStep =>
          /\ cleanup'.status = "returned"
          /\ store \ store' =
                {r \in store : /\ r.synced = 1
                               /\ r.created_at <
                                    now' - cleanup'.days * MsPerDay}]_vars

\* this step is sync_all returning from past the connectivity check
ReturnStep(t) == InCycle(t) /\ ~InCycle(t)'

\* C12: before any sync_all, with nothing evicted, the stats show every
\* added record unsynced.  A sync_all past the connectivity check returns
\* completed with synced + failed = total = the number of rows it fetched;
\* and when it is the only sync_all so far, it fetched every record ever
\* added and no publish failed, it reports them all synced and the stats then
\* show none unsynced and all synced.
C12_EndToEnd ==
    [][/\ (cycles = 0 /\ evicted = {}) =>
             /\ get_queue_stats(store).unsynced = seq
             /\ get_queue_stats(store).synced = 0
       /\ \A t \in Threads :
             ReturnStep(t) =>
                 /\ result'[t].status = "completed"
                 /\ result'[t].synced + result'[t].failed = result'[t].total
                 /\ result'[t].total = Len(batch[t])
                 /\ (/\ cycles = 1
                     /\ seq = result'[t].total
                     /\ result'[t].failed = 0) =>
                        /\ result'[t].synced = seq
                        /\ get_queue_stats(store').unsynced = 0
                        /\ get_queue_stats(store').synced = seq]_vars

C12_Witness ==
    /\ cycles = 1
    /\ seq = BATCH_SIZE
    /\ result[Bg] = [status |-> "completed", synced |-> BATCH_SIZE,
                     failed |-> 0, total |-> BATCH_SIZE]
    /\ get_queue_stats(store).unsynced = 0
    /\ get_queue_stats(store).synced = BATCH_SIZE

RowIdsOf(s) == {r.id : r \in s}

\* C13: every row fetched by a cycle and not yet through its sync_detection
\* is still in the store, and a row whose publish a cycle counts as synced is
\* in the store with synced = 1 at that moment.
C13_NoEvictionInFlight ==
    [][/\ \A t \in Threads :
            Publishing(t) =>
                \A i \in idx[t]..Len(batch[t]) :
                    batch[t][i].id \in RowIdsOf(store)
       /\ \A rid \in RowIds :
            (/\ Len(log'[rid]) = Len(log[rid]) + 1
             /\ log'[rid][Len(log'[rid])] = "ok") =>
                \E r \in store' : r.id = rid /\ r.synced = 1]_vars

\* this step ends a sync_detection of thread t
AttemptEnds(t) == Publishing(t) /\ (idx'[t] # idx[t] \/ ~Publishing(t)')

\* this step is the fetch of a batch by thread t
FetchStep(t) == pc[t] = "sync_connect" /\ Publishing(t)'

\* C15: a cycle starts at the first row of what it fetched, oldest first;
\* every sync_detection that ends, whatever its outcome, is one attempt on
\* the current row and on no other, and the cycle goes on to the next row of
\* the batch, returning completed only after the last.
C15_BatchNotAborted ==
    [][\A t \in Threads :
          /\ FetchStep(t) =>
                /\ idx'[t] = 1
                /\ LET rows == get_unsynced_detections(store, batch_size(t))
                   IN  batch'[t] = [i \in 1..Len(rows) |-> Fetched(rows[i])]
          /\ AttemptEnds(t) =>
                /\ \E what \in {"ok", "upload", "insert", "missing"} :
                      log' = [log EXCEPT ![Current(t).id] = Append(@, what)]
                /\ IF idx[t] < Len(batch[t])
                   THEN /\ idx'[t] = idx[t] + 1
                        /\ batch'[t] = batch[t]
                        /\ pc'[t] = "publish"
                   ELSE /\ result'[t].status = "completed"
                        /\ result'[t].total = Len(batch[t])
          /\ (Publishing(t) /\ ~AttemptEnds(t)) =>
                idx'[t] = idx[t] /\ batch'[t] = batch[t]]_vars

C15_Witness ==
    /\ cycles = 1
    /\ result[Bg] = [status |-> "completed", synced |-> 1, failed |-> 1,
                     total |-> 2]
    /\ log[1] \in {<<"upload">>, <<"insert">>, <<"missing">>}
    /\ log[2] = <<"ok">>

Sent(k) == k \in DOMAIN detection_data

\* C16: the inserted dict has latitude exactly when the row has one, and
\* with the row's value, the same for longitude, 0 included; and a row with
\* both or neither is sent with both or neither.
C16_CoordinatesSent ==
    detection_data # NotBuilt =>
        /\ \A k \in {"latitude", "longitude"} :
              /\ Sent(k) <=> queued_detection[k] # None
              /\ Sent(k) => detection_data[k] = queued_detection[k][1]
        /\ ((queued_detection.latitude = None)
                <=> (queued_detection.longitude = None)) =>
              (Sent("latitude") <=> Sent("longitude"))

\* this step is thread t's connectivity check
ConnectStep(t) == pc[t] = "sync_connect" /\ pc'[t] # "sync_connect"

\* C17: a sync_all whose connectivity check fails returns no_connection, and
\* that step fetches nothing, publishes nothing, changes no row and leaves
\* self.syncing as it was: False unless another cycle is in progress.  Any
\* other outcome of the check enters the cycle.
C17_NoConnection ==
    [][\A t \in Threads :
          ConnectStep(t) =>
              \/ InCycle(t)' /\ syncing'
              \/ /\ result'[t].status = "no_connection"
                 /\ pc'[t] = Home(t)
                 /\ store' = store
                 /\ <<batch, idx, stats>>' = <<batch, idx, stats>>
                 /\ <<inserts, insertCalls, log, files>>' =
                        <<inserts, insertCalls, log, files>>
                 /\ syncing' = syncing
                 /\ ~InCycle(Other(t)) => ~syncing']_vars

C17_Witness ==
    /\ Quiet
    /\ ~syncing
    /\ result[Bg].status = "no_connection"
    /\ Unsynced(store) # {}
    /\ cycles < MaxCycles

\* C18: while the process runs, every sync_all the background thread starts
\* ends, returning or raising, with the thread back in its sleep; and from
\* its sleep the thread calls sync_all again (until MaxCycles calls are
\* made).
C18_LoopAlive ==
    /\ (Started(Bg) /\ Running) ~> (pc[Bg] = "sleep" \/ ~Running)
    /\ (pc[Bg] = "sleep" /\ Running) ~>
            (Started(Bg) \/ cycles >= MaxCycles \/ ~Running)

\* the background thread has caught an exception of sync_all, and has called
\* sync_all again
C18_Witness ==
    /\ Started(Bg)
    /\ Running
    /\ \E r \in RowIds :
          /\ insertCalls[r] > InsertAttempts(r)
          /\ \A t \in Threads : Publishing(t) => Current(t).id # r

BatchIds(t) == {batch[t][i].id : i \in 1..Len(batch[t])}

\* C19: no thread that is inside sync_all (connectivity check, sync_detection
\* and its network calls, the delay between rows) holds a queue lock, the
\* sync manager's queue lock is never held from one step to the next, and so
\* add_detection can always take its next step, wherever the other thread is.
C19_EnqueueNeverWaits ==
    /\ \A t \in Threads, q \in Instances : Started(t) => lock[q] # t
    /\ lock["sync_manager.queue"] = "free"
    /\ (Running /\ pc[Main] = "idle" /\ seq < MaxAdds) =>
          ENABLED AddDetectionCount
    /\ (Running /\ pc[Main] = "add_write") => ENABLED AddDetectionWrite

\* an add_detection has completed while the background cycle, which fetched
\* before it, is in sync_detection
C19_Witness ==
    /\ pc[Bg] = "publish"
    /\ Len(batch[Bg]) < BATCH_SIZE
    /\ pc[Main] = "queued"
    /\ \E r \in Unsynced(store) : r.id = seq /\ r.id \notin BatchIds(Bg)

\* C20: a cycle works on the rows that its one call of
\* get_unsynced_detections returned: the batch holds only rows that were
\* pending at the fetch (all of them when they fit the limit), it does not
\* change until sync_all returns, a row inserted by add_detection is in no
\* batch in flight, every publish attempt is on a row of the batch of the
\* thread that makes it, and sync_all returns after the last row of the batch.
C20_SnapshotBatch ==
    [][\A t \in Threads :
        /\ FetchStep(t) =>
              /\ BatchIds(t)' \subseteq RowIdsOf(Unsynced(store))
              /\ count_unsynced(store) <= batch_size(t) =>
                    BatchIds(t)' = RowIdsOf(Unsynced(store))
        /\ (Publishing(t) /\ Publishing(t)') => batch'[t] = batch[t]
        /\ AddStep => \A r \in store' \ store : r.id \notin BatchIds(t)'
        /\ \A rid \in RowIds :
              log'[rid] # log[rid] =>
                \E u \in Threads : AttemptEnds(u) /\ Current(u).id = rid
        /\ (Publishing(t) /\ ~Publishing(t)') => idx[t] = Len(batch[t])
      ]_vars

\* the background cycle that fetched only row 1 has published it and returned
\* without touching row 2, which add_detection inserted during that cycle (the
\* producer's own sync_all was refused); the next cycle has fetched row 2
C20_Witness ==
    /\ cycles = 3
    /\ result[Main].status = "already_syncing"
    /\ pc[Bg] = "publish"
    /\ BatchIds(Bg) = {2}
    /\ log[1] = <<"ok">>
    /\ log[2] = <<>>

\* C21: a sync_detection call whose insert returned a row returns
\* (True, uploaded_id) and leaves its row, if still in the table, with
\* synced = 1 (in the table it is unless add_detection evicted it), whether
\* the pipeline trigger is off, succeeds or fails and whether os.remove
\* succeeds or fails.
C21_TriggerNonCritical ==
    (attempt.at = "returned" /\ attempt.uploaded_id # None) =>
        /\ attempt.ret = <<TRUE, attempt.uploaded_id>>
        /\ \A r \in store : r.id = attempt.id => r.synced = 1
        /\ attempt.detection_id \notin evicted =>
              \E r \in store : r.id = attempt.id

\* returned after a failed trigger and a failed os.remove
C21_Witness ==
    /\ attempt.at = "returned"
    /\ attempt.uploaded_id # None
    /\ attempt.trigger = "failed"
    /\ attempt.removed = "failed"
    /\ attempt.id \in files
    /\ \E r \in store : r.id = attempt.id /\ r.synced = 1

\* C22: a sync_detection call that found its image missing has returned
\* (False, None) and has made no call to the backend: no upload, no
\* get_public_url, no insert, no trigger.
C22_MissingArtifact ==
    (attempt.at = "returned" /\ attempt.missing) =>
        /\ attempt.ret = <<FALSE, None>>
        /\ attempt.backend = <<>>
        /\ attempt.uploaded_id = None

\* returned for a missing image, with the row still pending
C22_Witness ==
    /\ attempt.at = "returned"
    /\ attempt.missing
    /\ attempt.id \notin files
    /\ \E r \in store : r.id = attempt.id /\ r.synced = 0

\* this step is thread t, and not the other thread, calling sync_all
Calls(t) == CallStep(t) /\ pc'[Other(t)] = pc[Other(t)]

\* C23: self.syncing is true only while some invocation is between its
\* connectivity check and its end; the step by which an invocation that set
\* it returns or raises leaves it false; a return of already_syncing or of
\* no_connection leaves it as it was; and a call made while the other thread
\* is not inside a cycle gets past the guard.
C23_GuardNotStuck ==
    [][/\ syncing' => \E t \in Threads : InCycle(t)'
       /\ \A t \in Threads :
            /\ (InCycle(t) /\ ~InCycle(t)') => ~syncing'
            /\ (Calls(t) /\ result'[t].status = "already_syncing") =>
                  syncing' = syncing
            /\ (ConnectStep(t) /\ result'[t].status = "no_connection") =>
                  syncing' = syncing
            /\ (Calls(t) /\ ~InCycle(Other(t))) => pc'[t] = "sync_connect"
      ]_vars

\* an invocation has raised (an insert request whose attempt never finished),
\* and a later invocation of the background thread is past the guard
C23_Witness ==
    /\ pc[Bg] = "sync_connect"
    /\ ~InCycle(Main)
    /\ ~syncing
    /\ \E r \in RowIds : insertCalls[r] > InsertAttempts(r)

PendingRow(rid) == \E r \in store : r.id = rid /\ r.synced = 0
SyncedRow(rid) == \E r \in store : r.id = rid /\ r.synced = 1

\* C24: with the backend reachable and the cycles going on, a pending row
\* whose image exists (its publish would succeed) is eventually synced,
\* whichever older pending rows fail on every attempt.
C24_Progress ==
    \A rid \in Backlog : (PendingRow(rid) /\ rid \in files) ~> SyncedRow(rid)

\* C25: under OFFLINE_MODE auto or always a call of upload_detection never
\* ends in an exception, and when it has returned it has returned success
\* after a direct insert that returned a row or after a row was added to the
\* queue; under always it makes no online call.
C25_NoDetectionDropped ==
    upload.mode \in {"auto", "always"} =>
        /\ pc[Main] # "raised"
        /\ upload.at = "returned" =>
              /\ upload.ret[1] = TRUE
              /\ upload.inserted \/ seq > upload.seq
        /\ upload.mode = "always" => upload.online = <<>>

====
